---------------------------- MODULE Spec2Model ----------------------------
(***************************************************************************)
(* A model of the expense-api backend (src/src/app.ts and its variant      *)
(* src/unnamed/part_000): the expense ledger handlers (add, edit, remove,   *)
(* list) over the "expense-tracker" collection and the credential flows    *)
(* (signup, login, authenticateToken, current) over the "users" collection.*)
(*                                                                         *)
(* JavaScript strings are modelled as tuples of character codes, so that   *)
(* the string comparisons MongoDB performs ($gte/$lt on dateTime, the      *)
(* sort) and the formatting/parsing of dates are computed, not assumed.    *)
(* Storage calls are assumed to succeed unless the code or the collection  *)
(* configuration makes them fail (a malformed ObjectId, a unique index).   *)
(***************************************************************************)
EXTENDS Integers, Sequences, FiniteSets, TLC

VARIABLES
    expenses,   \* the expense-tracker collection: _id (hex string) -> document
    nextOid,    \* how many ObjectIds the store has generated for expenses
    lresp,      \* the last ledger request and the response it was given
    secretDefined,  \* whether process.env.JWT_SECRET is set
    uniqueEmailIndex, \* whether the users collection has a unique index on email
    users,      \* the users collection, in insertion (natural) order
    pending,    \* signup requests awaiting their insertOne
    clock,      \* the time, in seconds
    held,       \* the tokens the client has kept, with how it got each
    okCount,    \* per email, the signups answered 201 so far
    registered, \* the (email, password) pairs of the signups answered 201
                \* whose insert found no other record with that email
    aresp       \* the last credential request and the response it was given

lvars == <<expenses, nextOid, lresp>>
avars == <<secretDefined, uniqueEmailIndex, users, pending, clock, held,
           okCount, registered, aresp>>
vars == <<lvars, avars>>

-----------------------------------------------------------------------------
(* Bounds of the model. *)

MaxExpenses == 2
MaxUsers == 2
MaxPending == 2
MaxHeld == 1

-----------------------------------------------------------------------------
(* JSON values of a request body: a JavaScript value is a tagged record.   *)

Str(s) == [t |-> "string", s |-> s, n |-> 0]
Num(n) == [t |-> "number", s |-> <<>>, n |-> n]
Undefined == [t |-> "undefined", s |-> <<>>, n |-> 0]
Null == [t |-> "null", s |-> <<>>, n |-> 0]
\* the object {"$ne": null}, which express.json() parses like any other value
NeNullObject == [t |-> "object", s |-> <<>>, n |-> 0]

\* JavaScript ToBoolean, as the handlers' `!x` tests apply it
Truthy(v) ==
    CASE v.t = "string" -> v.s # <<>>
      [] v.t = "number" -> v.n # 0
      [] v.t = "object" -> TRUE
      [] OTHER -> FALSE

\* character codes of the characters of a date string
Ch == [dash |-> 45, dot |-> 46, zero |-> 48, colon |-> 58, T |-> 84, Z |-> 90]

Digit(d) == Ch.zero + d
IsDigit(c) == c >= Ch.zero /\ c <= Ch.zero + 9
Pad2(n) == <<Digit(n \div 10), Digit(n % 10)>>
Pad3(n) == <<Digit(n \div 100), Digit((n \div 10) % 10), Digit(n % 10)>>
Pad4(n) == <<Digit(n \div 1000), Digit((n \div 100) % 10),
             Digit((n \div 10) % 10), Digit(n % 10)>>

\* decimal digits of a non-negative integer (Number::toString)
RECURSIVE Decimal(_)
Decimal(n) == IF n < 10 THEN <<Digit(n)>> ELSE Decimal(n \div 10) \o <<Digit(n % 10)>>

\* `${v}` in a template literal
TemplateString(v) ==
    CASE v.t = "string" -> v.s
      [] v.t = "number" -> Decimal(v.n)
      [] OTHER -> <<>>

\* binary (code unit) comparison of two strings, as MongoDB's simple collation
StrLess(a, b) ==
    LET n == IF Len(a) < Len(b) THEN Len(a) ELSE Len(b)
        diff == {i \in 1..n : a[i] # b[i]}
    IN  IF diff = {} THEN Len(a) < Len(b)
        ELSE LET k == CHOOSE i \in diff : \A j \in diff : i <= j
             IN  a[k] < b[k]

StrLeq(a, b) == a = b \/ StrLess(a, b)


-----------------------------------------------------------------------------
(* ECMAScript Date: a time value is a day number since 1970-01-01 and the  *)
(* milliseconds within that day (the two halves of the time value, kept    *)
(* apart because the time value itself exceeds 32 bits); NaN is InvalidDate *)


InvalidDate == [valid |-> FALSE, day |-> 0, ms |-> 0]
TimeValue(day, ms) == [valid |-> TRUE, day |-> day, ms |-> ms]

IsLeap(y) == (y % 4 = 0 /\ y % 100 # 0) \/ y % 400 = 0
DaysInMonth(y, m) ==
    CASE m \in {4, 6, 9, 11} -> 30
      [] m = 2 -> IF IsLeap(y) THEN 29 ELSE 28
      [] OTHER -> 31

\* ECMA-262 DayFromYear
DayFromYear(y) ==
    365 * (y - 1970) + ((y - 1969) \div 4) - ((y - 1901) \div 100)
        + ((y - 1601) \div 400)

\* days of year y before month m (1-based)
RECURSIVE DaysBeforeMonth(_, _)
DaysBeforeMonth(y, m) ==
    IF m = 1 THEN 0 ELSE DaysBeforeMonth(y, m - 1) + DaysInMonth(y, m - 1)

\* ECMA-262 MakeDay: the date may exceed the month's length
MakeDay(y, m, d) == DayFromYear(y) + DaysBeforeMonth(y, m) + d - 1

\* ECMA-262 YearFromTime, MonthFromTime, DateFromTime on a day number
YearFromDay(day) ==
    LET g == 1970 + day \div 365
    IN  CHOOSE y \in (g - 1)..g : DayFromYear(y) <= day /\ day < DayFromYear(y + 1)
MonthFromDay(day) ==
    LET y == YearFromDay(day)
        n == day - DayFromYear(y)
    IN  CHOOSE m \in 1..12 :
            DaysBeforeMonth(y, m) <= n /\ n < DaysBeforeMonth(y, m) + DaysInMonth(y, m)
DateFromDay(day) ==
    LET y == YearFromDay(day)
    IN  day - DayFromYear(y) - DaysBeforeMonth(y, MonthFromDay(day)) + 1

\* Date.prototype.toISOString (throws RangeError on an invalid date: the
\* callers test `valid` first)
ToISOString(tv) ==
    LET h == tv.ms \div 3600000
        mi == (tv.ms \div 60000) % 60
        sec == (tv.ms \div 1000) % 60
    IN  Pad4(YearFromDay(tv.day)) \o <<Ch.dash>> \o Pad2(MonthFromDay(tv.day))
        \o <<Ch.dash>> \o Pad2(DateFromDay(tv.day)) \o <<Ch.T>> \o Pad2(h)
        \o <<Ch.colon>> \o Pad2(mi) \o <<Ch.colon>> \o Pad2(sec)
        \o <<Ch.dot>> \o Pad3(tv.ms % 1000) \o <<Ch.Z>>

\* the number a run of digits denotes
RECURSIVE DigitsValue(_)
DigitsValue(s) ==
    IF s = <<>> THEN 0
    ELSE DigitsValue(SubSeq(s, 1, Len(s) - 1)) * 10 + (s[Len(s)] - Ch.zero)

AllDigits(s) == \A i \in 1..Len(s) : IsDigit(s[i])

\* whether s is in the ECMA-262 Date Time String Format with a time and Z:
\* YYYY-MM-DDTHH:mm:ssZ or YYYY-MM-DDTHH:mm:ss.sssZ
IsDateTimeFormat(s) ==
    /\ Len(s) \in {20, 24}
    /\ AllDigits(SubSeq(s, 1, 4)) /\ s[5] = Ch.dash
    /\ AllDigits(SubSeq(s, 6, 7)) /\ s[8] = Ch.dash
    /\ AllDigits(SubSeq(s, 9, 10)) /\ s[11] = Ch.T
    /\ AllDigits(SubSeq(s, 12, 13)) /\ s[14] = Ch.colon
    /\ AllDigits(SubSeq(s, 15, 16)) /\ s[17] = Ch.colon
    /\ AllDigits(SubSeq(s, 18, 19))
    /\ IF Len(s) = 20 THEN s[20] = Ch.Z
       ELSE s[20] = Ch.dot /\ AllDigits(SubSeq(s, 21, 23)) /\ s[24] = Ch.Z

\* Date.parse of a string in the Date Time String Format
ParseDateTimeFormat(s) ==
    LET y == DigitsValue(SubSeq(s, 1, 4))
        m == DigitsValue(SubSeq(s, 6, 7))
        d == DigitsValue(SubSeq(s, 9, 10))
        h == DigitsValue(SubSeq(s, 12, 13))
        mi == DigitsValue(SubSeq(s, 15, 16))
        sec == DigitsValue(SubSeq(s, 18, 19))
        ms == IF Len(s) = 24 THEN DigitsValue(SubSeq(s, 21, 23)) ELSE 0
    IN  IF /\ y >= 1970 /\ m \in 1..12 /\ d >= 1 /\ d <= DaysInMonth(y, m)
           /\ h <= 23 /\ mi <= 59 /\ sec <= 59
        THEN TimeValue(MakeDay(y, m, d), ((h * 60 + mi) * 60 + sec) * 1000 + ms)
        ELSE InvalidDate

\* the year-month-day a lenient (legacy) parser reads from Y-M-01T00:00:00Z
\* when the month is not two digits
LegacyMonthStart(s) ==
    IF /\ Len(s) = 19 /\ AllDigits(SubSeq(s, 1, 4)) /\ s[5] = Ch.dash
       /\ IsDigit(s[6]) /\ s[6] # Ch.zero /\ s[7] = Ch.dash
    THEN TimeValue(MakeDay(DigitsValue(SubSeq(s, 1, 4)), s[6] - Ch.zero, 1), 0)
    ELSE InvalidDate

\* new Date(string). A string outside the Date Time String Format is parsed
\* by implementation-specific heuristics (ECMA-262 Date.parse): `lenient`
\* says whether the engine's fallback accepts it (V8's rejects a word such
\* as T after a number has been read).
NewDate(s, lenient) ==
    IF IsDateTimeFormat(s) THEN ParseDateTimeFormat(s)
    ELSE IF lenient THEN LegacyMonthStart(s)
    ELSE InvalidDate

\* endDate.setDate(startDate.getDate() + 31), the process running in UTC
SetDatePlus31(tv) ==
    IF ~tv.valid THEN InvalidDate
    ELSE TimeValue(MakeDay(YearFromDay(tv.day), MonthFromDay(tv.day),
                           DateFromDay(tv.day) + 31), tv.ms)

-----------------------------------------------------------------------------
(* The expense ledger (src/src/app.ts lines 44-190).                       *)

\* ObjectId.toHexString of the n-th id the store generates: 24 hex digits
ToHexString(n) == [i \in 1..24 |-> IF i = 24 THEN Digit(n) ELSE Digit(0)]

\* new ObjectId(id) accepts a string of 24 hex digits and throws otherwise
IsHexChar(c) == IsDigit(c) \/ (c >= 97 /\ c <= 102) \/ (c >= 65 /\ c <= 70)
ObjectIdAccepts(id) == Len(id) = 24 /\ \A i \in 1..24 : IsHexChar(id[i])

\* the string "abc", not an ObjectId
MalformedId == <<97, 98, 99>>

\* values of the :id path parameter: every id the store can generate, one
\* more that it never generates, and a malformed one
IdParams == {ToHexString(k) : k \in 1..(MaxExpenses + 1)} \cup {MalformedId}

UserA == Str(<<65>>)
UserB == Str(<<66>>)
Users == {UserA, UserB}

\* dateTime strings a client sends, in the format toISOString produces
DateTimes ==
    { Str(ToISOString(TimeValue(MakeDay(2023, 12, 31), 43200000))),
      Str(ToISOString(TimeValue(MakeDay(2024, 1, 1), 0))),
      Str(ToISOString(TimeValue(MakeDay(2024, 2, 1), 0))),
      Str(ToISOString(TimeValue(MakeDay(2024, 3, 2), 86399999))),
      Str(ToISOString(TimeValue(MakeDay(2024, 3, 3), 0))) }

Mandatory == {"userId", "dateTime", "amount", "type", "category", "title", "currency"}

\* request bodies with every mandatory field filled
FilledBodies ==
    [userId : Users, dateTime : DateTimes, amount : {Num(50)},
     type : {Str(<<101>>)}, category : {Str(<<99>>)}, title : {Str(<<116>>)},
     currency : {Str(<<85, 83, 68>>)}, note : {Str(<<110>>)}]

\* one filled body, and the same without the optional note
SampleBody == CHOOSE b \in FilledBodies : b.userId = UserA
BodyWithoutNote == [SampleBody EXCEPT !.note = Undefined]

\* values `!x` rejects: an absent field and, for some fields, 0, "" or null
FalsyValues(f) ==
    {Undefined} \cup
    CASE f = "amount" -> {Num(0)}
      [] f = "title" -> {Str(<<>>)}
      [] f = "category" -> {Null}
      [] OTHER -> {}

\* request bodies of add and edit: filled, or with one mandatory field falsy
Bodies ==
    FilledBodies \cup {BodyWithoutNote} \cup
    UNION {{[SampleBody EXCEPT ![f] = v] : v \in FalsyValues(f)} : f \in Mandatory}

\* the test with the last field forgotten
AllRequiredButCurrency(b) ==
    /\ Truthy(b.userId) /\ Truthy(b.dateTime) /\ Truthy(b.amount)
    /\ Truthy(b.type) /\ Truthy(b.category) /\ Truthy(b.title)

\* the handlers' test of the seven mandatory fields (lines 52-60, 91-99)
AllRequiredFilled(b) ==
    /\ Truthy(b.userId) /\ Truthy(b.dateTime) /\ Truthy(b.amount)
    /\ Truthy(b.type) /\ Truthy(b.category) /\ Truthy(b.title)
    /\ Truthy(b.currency)

\* BSON serialisation of a field: undefined is written as null
Stored(v) == IF v.t = "undefined" THEN Null ELSE v

\* newTransaction / updatedTransaction (lines 66-75, 105-114)
Transaction(b) ==
    [userId |-> b.userId, dateTime |-> b.dateTime, amount |-> b.amount,
     type |-> b.type, category |-> b.category, title |-> b.title,
     currency |-> b.currency, note |-> Stored(b.note)]

NoQuery == [userId |-> Undefined, month |-> Undefined, year |-> Undefined]

\* whether a request leaves a field out: absent, null, the empty string or
\* a zero number
IsEmptyValue(v) == v.t \in {"undefined", "null"} \/ v = Str(<<>>) \/ v = Num(0)

\* the mandatory fields a request body leaves out
MissingFields(b) == {f \in Mandatory : IsEmptyValue(b[f])}

\* what a ledger request was (its operation, :id, the mandatory fields its
\* body leaves out, its query) and how it was answered (the status, the
\* storage calls issued, the list returned). status 0: no response
LResp(op, status, id, missing, dbOps, q, list) ==
    [op |-> op, status |-> status, id |-> id, missing |-> missing,
     dbOps |-> dbOps, q |-> q, list |-> list]

LInit ==
    /\ expenses = <<>>
    /\ nextOid = 0
    /\ lresp = LResp("none", 0, <<>>, {}, <<>>, NoQuery, <<>>)

\* POST /api/add (lines 47-82)
Add(b) ==
    IF ~AllRequiredFilled(b)
    THEN /\ lresp' = LResp("add", 400, <<>>, MissingFields(b), <<>>, NoQuery, <<>>)
         /\ UNCHANGED <<expenses, nextOid>>
    ELSE /\ nextOid < MaxExpenses
         /\ nextOid' = nextOid + 1
         /\ expenses' = expenses @@ (ToHexString(nextOid + 1) :> Transaction(b))
         /\ lresp' = LResp("add", 201, ToHexString(nextOid + 1), MissingFields(b),
                           <<"insertOne">>, NoQuery, <<>>)

\* PUT /api/edit/:id (lines 85-129)
Edit(id, b) ==
    IF ~AllRequiredFilled(b)
    THEN /\ lresp' = LResp("edit", 400, id, MissingFields(b), <<>>, NoQuery, <<>>)
         /\ UNCHANGED <<expenses, nextOid>>
    ELSE IF ~ObjectIdAccepts(id)
    THEN \* new ObjectId(id) throws inside the try: the catch answers 500
         /\ lresp' = LResp("edit", 500, id, MissingFields(b), <<>>, NoQuery, <<>>)
         /\ UNCHANGED <<expenses, nextOid>>
    ELSE IF id \notin DOMAIN expenses
    THEN \* matchedCount === 0
         /\ lresp' = LResp("edit", 404, id, MissingFields(b), <<"updateOne">>, NoQuery, <<>>)
         /\ UNCHANGED <<expenses, nextOid>>
    ELSE /\ expenses' = [expenses EXCEPT ![id] = Transaction(b)]
         /\ lresp' = LResp("edit", 200, id, MissingFields(b), <<"updateOne">>, NoQuery, <<>>)
         /\ UNCHANGED nextOid

\* the function f without the key k
Without(f, k) == [x \in DOMAIN f \ {k} |-> f[x]]

\* DELETE /api/remove/:id (lines 131-139)
Remove(id) ==
    IF ~ObjectIdAccepts(id)
    THEN \* new ObjectId throws before the try, in an async handler: the
         \* promise rejects. Express 4 sends nothing (and Node ends the process
         \* on the unhandled rejection); Express 5 passes it to the error
         \* handler, which answers 500.
         /\ \E st \in {0, 500} :
                lresp' = LResp("remove", st, id, {}, <<>>, NoQuery, <<>>)
         /\ UNCHANGED <<expenses, nextOid>>
    ELSE /\ expenses' = Without(expenses, id)
         /\ lresp' = LResp("remove", 200, id, {}, <<"deleteOne">>, NoQuery, <<>>)
         /\ UNCHANGED nextOid

\* "-01T00:00:00Z"
MonthStartSuffix ==
    <<Ch.dash>> \o Pad2(1) \o <<Ch.T>> \o Pad2(0) \o <<Ch.colon>> \o Pad2(0)
    \o <<Ch.colon>> \o Pad2(0) \o <<Ch.Z>>

\* `${year}-${month}-01T00:00:00Z` (line 151)
StartDateString(year, month) ==
    TemplateString(year) \o <<Ch.dash>> \o TemplateString(month) \o MonthStartSuffix

\* whether the handler adds the dateTime range to the query (line 150)
HasRange(q) == Truthy(q.month) /\ Truthy(q.year)

\* a query that lost its userId: every document matches
MatchesAnyUser(doc, v) == doc.userId.t = "string"

\* MongoDB's match of { userId: v }: equality with a scalar; the operator
\* object {"$ne": null} matches every document whose field is not null
MatchesUserId(doc, v) ==
    IF v.t = "object" THEN doc.userId.t \notin {"null", "undefined"}
    ELSE doc.userId = v

\* MongoDB's match of { dateTime: { $gte: from, $lt: to } } with string
\* bounds: only strings are compared with strings, in binary order
MatchesRange(doc, from, to) ==
    /\ doc.dateTime.t = "string"
    /\ StrLeq(from, doc.dateTime.s)
    /\ StrLess(doc.dateTime.s, to)

\* the ids of the documents find(query) selects (lines 148-162)
Selected(q, startDate) ==
    LET from == IF HasRange(q) THEN ToISOString(startDate) ELSE <<>>
        to == IF HasRange(q) THEN ToISOString(SetDatePlus31(startDate)) ELSE <<>>
    IN  {id \in DOMAIN expenses :
            /\ MatchesUserId(expenses[id], q.userId)
            /\ HasRange(q) => MatchesRange(expenses[id], from, to)}

\* .sort({ dateTime: -1 }): no document precedes one with a greater dateTime
SortedDescending(ids) ==
    \A i, j \in 1..Len(ids) :
        i < j => ~StrLess(expenses[ids[i]].dateTime.s, expenses[ids[j]].dateTime.s)

\* the orders in which the cursor may return the selected documents (equal
\* keys come in any order)
SortedResults(sel) ==
    {ids \in [1..Cardinality(sel) -> sel] :
        /\ \A i, j \in 1..Cardinality(sel) : i # j => ids[i] # ids[j]
        /\ SortedDescending(ids)}

\* a document as toArray returns it
Document(id) == [_id |-> id, doc |-> expenses[id]]

ListUserIds == Users \cup {Undefined, NeNullObject}
ListMonths == {Undefined, Str(Pad2(2)), Num(2), Str(Pad2(12))}
ListYears == {Undefined, Num(2023), Num(2024)}
Queries == [userId : ListUserIds, month : ListMonths, year : ListYears]

\* the engines a query tells apart: how new Date treats a string outside
\* the Date Time String Format matters only when the handler builds one
Engines(q) ==
    IF HasRange(q) /\ ~IsDateTimeFormat(StartDateString(q.year, q.month))
    THEN BOOLEAN ELSE {FALSE}

\* POST /api/expenses (lines 141-173)
List(q, lenient) ==
    /\ UNCHANGED <<expenses, nextOid>>
    /\ IF ~Truthy(q.userId)
       THEN lresp' = LResp("list", 400, <<>>, {}, <<>>, q, <<>>)
       ELSE LET startDate == IF HasRange(q)
                             THEN NewDate(StartDateString(q.year, q.month), lenient)
                             ELSE InvalidDate
            IN  IF HasRange(q) /\ ~startDate.valid
                THEN \* startDate.toISOString() throws RangeError: the catch
                     \* answers 500
                     lresp' = LResp("list", 500, <<>>, {}, <<>>, q, <<>>)
                ELSE \E ids \in SortedResults(Selected(q, startDate)) :
                        lresp' = LResp("list", 200, <<>>, {}, <<"find">>, q,
                                       [i \in 1..Len(ids) |-> Document(ids[i])])

-----------------------------------------------------------------------------
(* Credentials and tokens (src/src/app.ts lines 236-325, and the same code *)
(* in src/unnamed/part_000 lines 66-155).                                  *)

\* bcrypt's key: the password's bytes and a terminating NUL, read cyclically
\* into the 18 words (72 bytes) of the Blowfish P-array; bytes beyond the
\* 72nd are never read
BcryptKey(s) == [i \in 1..72 |-> (s \o <<0>>)[((i - 1) % (Len(s) + 1)) + 1]]

\* bcrypt.hash(password, 10) under the salt it draws
BcryptHash(s, salt) == [salt |-> salt, digest |-> BcryptKey(s)]

\* bcrypt.compare(password, hash): rehash under the stored salt
BcryptCompare(s, h) == BcryptHash(s, h.salt) = h

Salts == {"salt1", "salt2"}

\* expiresIn: "1h", in seconds
TokenTTL == 3600

\* jwt.sign({ id }, key, { expiresIn: "1h" }) at time now: the payload and
\* a signature that binds the payload to the key
Sign(id, key, now) ==
    LET payload == [id |-> id, iat |-> now, exp |-> now + TokenTTL]
    IN  [payload |-> payload, sig |-> [key |-> key, over |-> payload]]

\* generateToken (lines 241-247), the secret being defined
GenerateToken(userId, now) == Sign(userId, "JWT_SECRET", now)

NoToken == Sign(<<>>, "none", 0)

\* the check with the expiry compared the wrong way at the boundary
JwtValidThroughExpiry(tok, now) ==
    /\ tok.sig = [key |-> "JWT_SECRET", over |-> tok.payload]
    /\ now <= tok.payload.exp

\* jwt.verify's check of a decoded token at time now: signature, then expiry
JwtValid(tok, now) ==
    /\ tok.sig = [key |-> "JWT_SECRET", over |-> tok.payload]
    /\ now < tok.payload.exp

\* the space-separated parts of an Authorization header: a word, an empty
\* string (between two adjacent spaces) or a JWT
Word(w) == [kind |-> "word", word |-> w, jwt |-> NoToken]
EmptyPart == [kind |-> "empty", word |-> "", jwt |-> NoToken]
Jwt(tok) == [kind |-> "jwt", word |-> "", jwt |-> tok]
NoPart == [kind |-> "undefined", word |-> "", jwt |-> NoToken]

\* req.headers["authorization"]: absent, or authHeader.split(" ")
NoHeader == [present |-> FALSE, parts |-> <<>>]
Header(parts) == [present |-> TRUE, parts |-> parts]

\* the header's first part taken for the token
ExtractFirstPart(h) ==
    IF h.present /\ Len(h.parts) >= 1 THEN h.parts[1] ELSE NoPart

\* authHeader && authHeader.split(" ")[1] (line 294)
ExtractToken(h) ==
    IF h.present /\ Len(h.parts) >= 2 THEN h.parts[2] ELSE NoPart

\* `!token`: undefined or the empty string
TokenMissing(part) == part.kind \in {"undefined", "empty"}

\* jwt.verify(token, secret, callback): err is set unless the token is a
\* well-formed JWT with a valid signature and an expiry in the future
VerifyFails(part, now) == part.kind # "jwt" \/ ~JwtValid(part.jwt, now)

\* usersCollection.findOne({ email }): the first match in natural order
FindByEmail(email) ==
    LET hits == {i \in 1..Len(users) : users[i].email = email}
    IN  IF hits = {} THEN 0 ELSE CHOOSE i \in hits : \A j \in hits : i <= j

\* a lookup whose filter is dropped: the first user
FindFirstUser(id) == IF Len(users) = 0 THEN 0 ELSE 1

\* usersCollection.findOne({ _id: new ObjectId(id) })
FindById(id) ==
    LET hits == {i \in 1..Len(users) : users[i]._id = id}
    IN  IF hits = {} THEN 0 ELSE CHOOSE i \in hits : TRUE

EmailA == Str(<<97>>)
EmailB == Str(<<98>>)
Emails == {EmailA, EmailB}

PwShort == Str(<<112, 119>>)
PwOther == Str(<<113>>)
PwLong72 == Str([i \in 1..72 |-> 97])
PwLong73 == Str([i \in 1..73 |-> IF i = 73 THEN 98 ELSE 97])

\* what a credential request was and how it was answered
AResp(op, status, email, password, token, header, ran, reqUser, body) ==
    [op |-> op, status |-> status, email |-> email, password |-> password,
     token |-> token, header |-> header, at |-> clock, ran |-> ran,
     reqUser |-> reqUser, body |-> body]

AInit ==
    /\ secretDefined \in BOOLEAN
    /\ uniqueEmailIndex \in BOOLEAN
    /\ users = <<>>
    /\ pending = <<>>
    /\ clock = 0
    /\ held = {}
    /\ okCount = [e \in Emails |-> 0]
    /\ registered = {}
    /\ aresp = AResp("none", 0, Undefined, Undefined, NoToken, NoHeader, FALSE,
                     <<>>, Null)

\* POST /api/signup up to its await of insertOne (lines 250-259): the
\* validation, and the hash under the salt bcrypt draws
SignupBegin(email, password, salt) ==
    IF ~Truthy(email) \/ ~Truthy(password)
    THEN /\ aresp' = AResp("signup", 400, email, password, NoToken, NoHeader,
                           FALSE, <<>>, Null)
         /\ UNCHANGED <<secretDefined, uniqueEmailIndex, users, pending, clock,
                        held, okCount, registered>>
    ELSE IF password.t # "string"
    THEN \* bcrypt.hash rejects ("Illegal arguments"): the catch answers 500
         /\ aresp' = AResp("signup", 500, email, password, NoToken, NoHeader,
                           FALSE, <<>>, Null)
         /\ UNCHANGED <<secretDefined, uniqueEmailIndex, users, pending, clock,
                        held, okCount, registered>>
    ELSE /\ Len(pending) < MaxPending
         /\ Len(users) + Len(pending) < MaxUsers
         /\ pending' = Append(pending, [email |-> email, password |-> password,
                                        hash |-> BcryptHash(password.s, salt)])
         /\ UNCHANGED <<secretDefined, uniqueEmailIndex, users, clock, held,
                        okCount, registered, aresp>>

\* the sequence s without its i-th element
RemoveAt(s, i) == SubSeq(s, 1, i - 1) \o SubSeq(s, i + 1, Len(s))

\* POST /api/signup from its insertOne on (lines 259-265)
SignupComplete(i) ==
    LET r == pending[i]
        id == ToHexString(Len(users) + 1)
        fresh == FindByEmail(r.email) = 0
    IN  /\ pending' = RemoveAt(pending, i)
        /\ UNCHANGED <<secretDefined, uniqueEmailIndex, clock, held>>
        /\ IF uniqueEmailIndex /\ ~fresh
           THEN \* insertOne rejects (duplicate key): the catch answers 500
                /\ aresp' = AResp("signup", 500, r.email, r.password, NoToken,
                                  NoHeader, FALSE, <<>>, Null)
                /\ UNCHANGED <<users, okCount, registered>>
           ELSE /\ users' = Append(users, [_id |-> id, email |-> r.email,
                                           password |-> r.hash])
                /\ IF ~secretDefined
                   THEN \* generateToken throws: the catch answers 500
                        /\ aresp' = AResp("signup", 500, r.email, r.password,
                                          NoToken, NoHeader, FALSE, <<>>, Null)
                        /\ UNCHANGED <<okCount, registered>>
                   ELSE /\ aresp' = AResp("signup", 201, r.email, r.password,
                                          GenerateToken(id, clock), NoHeader,
                                          FALSE, <<>>, Null)
                        /\ okCount' = [okCount EXCEPT ![r.email] = @ + 1]
                        /\ registered' =
                              IF fresh
                              THEN registered \cup
                                   {[email |-> r.email, password |-> r.password]}
                              ELSE registered

\* the status and token of POST /api/login (lines 269-289)
LoginOutcome(email, password) ==
    LET i == FindByEmail(email)
    IN  IF ~Truthy(email) \/ ~Truthy(password) THEN <<400, NoToken>>
        ELSE IF i = 0 THEN <<400, NoToken>>
        ELSE IF password.t # "string" THEN <<500, NoToken>>
        ELSE IF ~BcryptCompare(password.s, users[i].password) THEN <<400, NoToken>>
        ELSE IF ~secretDefined THEN <<500, NoToken>>
        ELSE <<200, GenerateToken(users[i]._id, clock)>>

\* POST /api/login
Login(email, password) ==
    /\ aresp' = AResp("login", LoginOutcome(email, password)[1], email, password,
                      LoginOutcome(email, password)[2], NoHeader, FALSE, <<>>, Null)
    /\ UNCHANGED <<secretDefined, uniqueEmailIndex, users, pending, clock, held,
                   okCount, registered>>

\* the client keeps the token of the response it just received
KeepToken ==
    /\ aresp.op \in {"signup", "login"}
    /\ aresp.status \in {200, 201}
    /\ Cardinality(held) < MaxHeld
    /\ held' = held \cup {[token |-> aresp.token, email |-> aresp.email,
                           via |-> aresp.op]}
    /\ UNCHANGED <<secretDefined, uniqueEmailIndex, users, pending, clock,
                   okCount, registered, aresp>>

\* time passes: to one second on, to just before an hour, to an hour, beyond
Tick ==
    /\ \E t \in {1, TokenTTL - 1, TokenTTL, TokenTTL + 1} :
            t > clock /\ clock' = t
    /\ UNCHANGED <<secretDefined, uniqueEmailIndex, users, pending, held,
                   okCount, registered, aresp>>

\* the user as /api/current returns it: projection { password: 0 }
Projected(i) ==
    IF i = 0 THEN Null ELSE [t |-> "user", s |-> users[i].email.s, n |-> i]

\* authenticateToken (lines 292-307) and the handler of GET /api/current
\* (lines 310-321) behind it
Current(h) ==
    LET part == ExtractToken(h)
    IN  /\ UNCHANGED <<secretDefined, uniqueEmailIndex, users, pending, clock,
                       held, okCount, registered>>
        /\ IF TokenMissing(part)
           THEN aresp' = AResp("current", 401, Undefined, Undefined, NoToken, h,
                               FALSE, <<>>, Null)
           ELSE IF ~secretDefined
           THEN \* the middleware throws: Express answers 500, the handler
                \* does not run
                aresp' = AResp("current", 500, Undefined, Undefined, NoToken, h,
                               FALSE, <<>>, Null)
           ELSE IF VerifyFails(part, clock)
           THEN aresp' = AResp("current", 403, Undefined, Undefined, NoToken, h,
                               FALSE, <<>>, Null)
           ELSE aresp' = AResp("current", 200, Undefined, Undefined, NoToken, h,
                               TRUE, part.jwt.payload.id,
                               Projected(FindById(part.jwt.payload.id)))

\* the tokens a client can present: those it holds, one of them with the
\* subject changed, and one signed with a key of its own
Tampered(tok) ==
    [tok EXCEPT !.payload.id = IF @ = ToHexString(1) THEN ToHexString(2)
                               ELSE ToHexString(1)]
Presentable ==
    {x.token : x \in held} \cup {Tampered(x.token) : x \in held}
    \cup {Sign(ToHexString(1), "guess", clock)}

\* the Authorization headers a client sends
Headers ==
    {NoHeader, Header(<<Word("Bearer")>>), Header(<<Word("Basic"), Word("dXNlcg")>>)}
    \cup {Header(<<Word("Bearer"), Jwt(t)>>) : t \in Presentable}
    \cup {Header(<<Jwt(t)>>) : t \in Presentable}
    \cup {Header(<<Word("Bearer"), EmptyPart, Jwt(t)>>) : t \in Presentable}

EmailInputs == Emails \cup {Undefined}
PasswordInputs == {PwShort, PwOther, PwLong72, PwLong73, Undefined, Num(5)}

Init == LInit /\ AInit

\* the ledger's requests
LedgerNext ==
    \/ \E b \in Bodies : Add(b) /\ UNCHANGED avars
    \/ \E id \in IdParams, b \in Bodies : Edit(id, b) /\ UNCHANGED avars
    \/ \E id \in IdParams : Remove(id) /\ UNCHANGED avars
    \/ \E q \in Queries : \E lenient \in Engines(q) :
            List(q, lenient) /\ UNCHANGED avars

\* signup and login, with concurrent signups
CredentialNext ==
    \/ \E e \in EmailInputs, p \in PasswordInputs, salt \in Salts :
            SignupBegin(e, p, salt) /\ UNCHANGED lvars
    \/ \E i \in 1..Len(pending) : SignupComplete(i) /\ UNCHANGED lvars
    \/ \E e \in EmailInputs, p \in PasswordInputs :
            Login(e, p) /\ UNCHANGED lvars

\* a client's session: signup or login, keep the token, present it later
SessionNext ==
    \/ \E e \in EmailInputs, p \in {PwShort, Undefined} :
            SignupBegin(e, p, "salt1") /\ UNCHANGED lvars
    \/ \E i \in 1..Len(pending) : SignupComplete(i) /\ UNCHANGED lvars
    \/ \E e \in Emails, p \in {PwShort, PwOther} : Login(e, p) /\ UNCHANGED lvars
    \/ KeepToken /\ UNCHANGED lvars
    \/ Tick /\ UNCHANGED lvars
    \/ \E h \in Headers : Current(h) /\ UNCHANGED lvars

\* the ledger's handlers read none of the credential configuration
LedgerInit == Init /\ secretDefined = TRUE /\ uniqueEmailIndex = FALSE

SpecLedger == LedgerInit /\ [][LedgerNext]_vars
SpecCredentials == Init /\ [][CredentialNext]_vars
SpecSession == Init /\ [][SessionNext]_vars

-----------------------------------------------------------------------------
(* Properties of the ledger, checked under SpecLedger.                     *)

\* the year and month a query names
QueryYear(q) == DigitsValue(TemplateString(q.year))
QueryMonth(q) == DigitsValue(TemplateString(q.month))

\* whether a query supplies a value
Supplied(v) == ~IsEmptyValue(v)

\* the instant a stored dateTime denotes lies in [first instant of the
\* month, first instant of the month + 31 days)
InWindow(doc, q) ==
    LET at == ParseDateTimeFormat(doc.dateTime.s)
        first == MakeDay(QueryYear(q), QueryMonth(q), 1)
    IN  at.valid /\ first <= at.day /\ at.day < first + 31

\* the ids of the listed documents
ListedIds == {lresp.list[i]._id : i \in 1..Len(lresp.list)}

\* the list holds each document once, as it is stored
ListedAsStored ==
    /\ Cardinality(ListedIds) = Len(lresp.list)
    /\ \A i \in 1..Len(lresp.list) :
          /\ lresp.list[i]._id \in DOMAIN expenses
          /\ lresp.list[i].doc = expenses[lresp.list[i]._id]

\* the instants of the listed documents never increase along the list
ListedNewestFirst ==
    \A i, j \in 1..Len(lresp.list) :
        i < j =>
            LET a == ParseDateTimeFormat(lresp.list[i].doc.dateTime.s)
                b == ParseDateTimeFormat(lresp.list[j].doc.dateTime.s)
            IN  a.day > b.day \/ (a.day = b.day /\ a.ms >= b.ms)

C7_EditContract ==
    [][lresp'.op = "edit" =>
          /\ (lresp'.missing = {} /\ lresp'.id \notin DOMAIN expenses) =>
                (lresp'.status = 404 /\ expenses' = expenses)
          /\ lresp'.missing # {} =>
                (lresp'.status = 400 /\ lresp'.dbOps = <<>> /\ expenses' = expenses)
      ]_vars

\* C8: a delete is answered 200 for any id, stored or not; afterwards the
\* ledger holds no record with that id, and a delete of an id that is not
\* stored leaves the ledger unchanged
C8_DeleteIdempotent ==
    [][lresp'.op = "remove" =>
          /\ lresp'.status = 200
          /\ lresp'.id \notin DOMAIN expenses'
          /\ lresp'.id \notin DOMAIN expenses => expenses' = expenses
      ]_vars

\* C9: every stored expense carries the seven mandatory fields non-empty,
\* and an add or edit that leaves one out is answered 400 and stores nothing
C9_MandatoryFields ==
    [][/\ \A id \in DOMAIN expenses' :
              \A f \in Mandatory : ~IsEmptyValue(expenses'[id][f])
       /\ (lresp'.op \in {"add", "edit"} /\ lresp'.missing # {}) =>
              (lresp'.status = 400 /\ expenses' = expenses)
      ]_vars

\* an edit of a stored expense that left a field out was answered 400
C9_Witness ==
    /\ lresp.op = "edit" /\ lresp.missing # {} /\ lresp.status = 400
    /\ lresp.id \in DOMAIN expenses

\* C10: a list for a user with month and year supplied is exactly that
\* user's expenses in [first instant of the month, + 31 days), newest first;
\* with month or year absent it is all of that user's expenses, newest first
C10_ListWindow ==
    (lresp.op = "list" /\ lresp.q.userId \in Users) =>
        /\ lresp.status = 200
        /\ ListedAsStored
        /\ ListedNewestFirst
        /\ ListedIds =
              {id \in DOMAIN expenses :
                  /\ expenses[id].userId = lresp.q.userId
                  /\ (Supplied(lresp.q.month) /\ Supplied(lresp.q.year)) =>
                        InWindow(expenses[id], lresp.q)}

\* the window and the order of C10 hold whenever the handler's start string
\* is in the Date Time String Format (a two-digit month)
ListWindowForTwoDigitMonth ==
    (lresp.op = "list" /\ HasRange(lresp.q)
     /\ ~IsDateTimeFormat(StartDateString(lresp.q.year, lresp.q.month)))
    \/ C10_ListWindow

-----------------------------------------------------------------------------
(* Properties of signup and login, checked under SpecCredentials.          *)

\* the user records that hold an email
RecordsOf(e) == {i \in 1..Len(users) : users[i].email = e}

\* C1: once a signup with (E, P) has succeeded, no other record holding E,
\* every later login with (E, P) is answered with a token and every later
\* login with (E, P'), P' # P, fails without one
C1_LoginAfterSignup ==
    aresp.op = "login" =>
        \A r \in registered :
            r.email = aresp.email =>
                IF aresp.password = r.password
                THEN aresp.status = 200 /\ aresp.token # NoToken
                ELSE aresp.status # 200 /\ aresp.token = NoToken

\* the same, for passwords that differ within their first 72 bytes
LoginAfterSignupWithin72 ==
    aresp.op = "login" =>
        \A r \in registered :
            (r.email = aresp.email /\ {r.password, aresp.password} # {PwLong72, PwLong73}) =>
                IF aresp.password = r.password
                THEN aresp.status = 200 /\ aresp.token # NoToken
                ELSE aresp.status # 200 /\ aresp.token = NoToken

\* C6: of the signups carrying one email exactly one is answered 201 and at
\* most one user record holds that email (the signing secret being set)
C6_OneSignupPerEmail ==
    secretDefined =>
        \A e \in Emails :
            /\ okCount[e] <= 1
            /\ Cardinality(RecordsOf(e)) <= 1
            /\ (aresp.op = "signup" /\ aresp.email = e /\ aresp.status \in {201, 500}
                /\ aresp.password.t = "string") => okCount[e] = 1

\* the same, on a users collection that has a unique index on email
OneSignupPerEmailUnderIndex == uniqueEmailIndex => C6_OneSignupPerEmail

-----------------------------------------------------------------------------
(* Properties of the token and the middleware, checked under SpecSession.  *)

\* the token a request presents as `<scheme> <token>`, if it does
Presented(h) == h.present /\ Len(h.parts) = 2 /\ h.parts[2].kind = "jwt"

\* C2: the subject of the token a signup returned with 201, verified by the
\* middleware and looked up by GET /api/current, is a stored user whose
\* email is the email of that signup
C2_SignupTokenResolves ==
    \A x \in held :
        (/\ x.via = "signup"
         /\ aresp.op = "current" /\ aresp.ran
         /\ Presented(aresp.header) /\ aresp.header.parts[2].jwt = x.token) =>
            /\ aresp.status = 200
            /\ aresp.body.t = "user"
            /\ aresp.body.s = x.email.s

\* /api/current answered the token of the second user's signup
C2_Witness ==
    \E x \in held :
        /\ x.via = "signup" /\ x.token.payload.id = ToHexString(2)
        /\ aresp.op = "current" /\ aresp.ran /\ aresp.status = 200
        /\ Presented(aresp.header) /\ aresp.header.parts[2].jwt = x.token
        /\ users[1].email # x.email

\* C3: a token issued by signup or login and presented an hour or more
\* after its issue is rejected with 403: not with 401, and the handler does
\* not run
C3_ExpiredRejected403 ==
    \A x \in held :
        (/\ aresp.op = "current"
         /\ Presented(aresp.header) /\ aresp.header.parts[2].jwt = x.token
         /\ aresp.at >= x.token.payload.iat + TokenTTL) =>
            aresp.status = 403 /\ ~aresp.ran

\* a held token was presented exactly an hour after its issue
C3_Witness ==
    \E x \in held :
        /\ aresp.op = "current" /\ aresp.status = 403
        /\ Presented(aresp.header) /\ aresp.header.parts[2].jwt = x.token
        /\ aresp.at = x.token.payload.iat + TokenTTL

\* a request carries no credential: no header, or nothing after the scheme
NoCredential(h) == ~h.present \/ Len(h.parts) < 2 \/ h.parts[2].kind = "empty"

\* a credential that jwt.verify accepts at time `at`: a token the server
\* signed for some subject less than an hour before
Verifies(part, at) ==
    /\ part.kind = "jwt"
    /\ part.jwt = GenerateToken(part.jwt.payload.id, part.jwt.payload.iat)
    /\ at - part.jwt.payload.iat < TokenTTL

\* C4: a request to the protected route either passes, the verified subject
\* bound to the request before the handler runs, or is rejected, the handler
\* not running; without a credential it is rejected with 401, with a
\* credential that fails verification with 403
C4_MiddlewareOutcomes ==
    aresp.op = "current" =>
        /\ aresp.ran =>
              /\ ~NoCredential(aresp.header)
              /\ Verifies(aresp.header.parts[2], aresp.at)
              /\ aresp.reqUser = aresp.header.parts[2].jwt.payload.id
        /\ ~aresp.ran => aresp.status \in {401, 403, 500}
        /\ NoCredential(aresp.header) => (aresp.status = 401 /\ ~aresp.ran)
        /\ (/\ ~NoCredential(aresp.header) /\ secretDefined
            /\ ~Verifies(aresp.header.parts[2], aresp.at)) =>
              (aresp.status = 403 /\ ~aresp.ran)

\* a header with a scheme and no token was rejected while the client held
\* a token
C4_Witness ==
    /\ aresp.op = "current" /\ aresp.status = 401
    /\ aresp.header = Header(<<Word("Bearer")>>)
    /\ held # {}

=============================================================================
